---- MODULE Spec2Model ----
(***************************************************************************)
(* State-machine model of the single-threaded web server in                *)
(* src/server/src/main.rs: main's accept loop and handle_connection.       *)
(* Byte strings are sequences of byte values (0..255).                     *)
(***************************************************************************)
EXTENDS Integers, Sequences, FiniteSets, TLC

VARIABLES
    pc,           \* position of the single control thread
    accepted,     \* number of connections yielded Ok by listener.incoming()
    stream,       \* the connection owned by the running handler, 0 when none
    conns,        \* per connection: open flag and the calls made on it
    fs,           \* the two resource files on local storage
    buffer,       \* handle_connection's local  buffer: [u8; 1024]
    byte_count,   \* the value returned by stream.read (the code discards it)
    status_line,  \* local of handle_connection
    filename,     \* local of handle_connection
    contents,     \* local of handle_connection
    response,     \* local of handle_connection
    wire,         \* bytes the transport took from the current connection's write
    failed        \* the call whose Result was Err, "none" so far

vars == <<pc, accepted, stream, conns, fs, buffer, byte_count, status_line,
          filename, contents, response, wire, failed>>

----------------------------------------------------------------------------
(* Bounds and program constants *)

\* let mut buffer = [0; 1024];
BufferSize == 1024

\* number of connections the listener yields before the model stops accepting
MaxAccepts == 3

----------------------------------------------------------------------------
(* Byte-string literals of the program *)

\* b"GET / HTTP/1.1\r\n"
get == <<71, 69, 84, 32, 47, 32, 72, 84, 84, 80, 47, 49, 46, 49, 13, 10>>

\* "HTTP/1.1 200 OK"
StatusOk == <<72, 84, 84, 80, 47, 49, 46, 49, 32, 50, 48, 48, 32, 79, 75>>

\* "HTTP/1.1 404 NOT FOUND"
StatusNotFound == <<72, 84, 84, 80, 47, 49, 46, 49, 32, 52, 48, 52, 32,
                    78, 79, 84, 32, 70, 79, 85, 78, 68>>

\* "\r\n"
CRLF == <<13, 10>>

\* "Content-Length: "
ContentLengthHdr == <<67, 111, 110, 116, 101, 110, 116, 45, 76, 101, 110,
                      103, 116, 104, 58, 32>>

HelloFile == "hello.html"
NotFoundFile == "404.html"

----------------------------------------------------------------------------
(* Pure helpers *)

Min(a, b) == IF a <= b THEN a ELSE b

\* [0; 1024]
ZeroBuffer == [i \in 1..BufferSize |-> 0]

\* faulty variant: the comparison forgets the line terminator of the pattern
starts_with_no_terminator(s, needle) ==
    /\ Len(needle) <= Len(s)
    /\ \A i \in 1..(Len(needle) - 2) : s[i] = needle[i]

\* slice::starts_with: length check first, then byte-for-byte equality
starts_with(s, needle) ==
    /\ Len(needle) <= Len(s)
    /\ \A i \in 1..Len(needle) : s[i] = needle[i]

\* faulty variant: the else branch pairs the 404 status line with the success page
select_swapped(b) ==
    IF starts_with(b, get)
    THEN <<StatusOk, HelloFile>>
    ELSE <<StatusNotFound, HelloFile>>

\* the if/else that yields (status_line, filename)
select(b) ==
    IF starts_with(b, get)
    THEN <<StatusOk, HelloFile>>
    ELSE <<StatusNotFound, NotFoundFile>>

\* UTF-8 validation done by fs::read_to_string, for one- and two-byte
\* sequences (the file contents drawn below use no longer ones).
RECURSIVE Utf8Valid(_)
Utf8Valid(s) ==
    IF s = <<>> THEN TRUE
    ELSE IF s[1] < 128 THEN Utf8Valid(Tail(s))
    ELSE IF /\ s[1] >= 194 /\ s[1] <= 223 /\ Len(s) >= 2
            /\ s[2] >= 128 /\ s[2] <= 191
         THEN Utf8Valid(Tail(Tail(s)))
    ELSE FALSE

\* faulty variant: the length counts characters (continuation bytes skipped)
str_len_chars(s) ==
    Cardinality({i \in 1..Len(s) : s[i] < 128 \/ s[i] >= 192})

\* String::len: the length in bytes
str_len(s) == Len(s)

\* Display for usize: decimal digits, no padding, "0" for zero
RECURSIVE ToDecimal(_)
ToDecimal(n) ==
    IF n < 10 THEN <<48 + n>>
    ELSE Append(ToDecimal(n \div 10), 48 + (n % 10))

\* format!("{}\r\nContent-Length: {}\r\n\r\n{}", status_line, contents.len(), contents)
format(sl, c) ==
    sl \o CRLF \o ContentLengthHdr \o ToDecimal(str_len(c)) \o CRLF \o CRLF \o c

----------------------------------------------------------------------------
(* Inputs *)

Missing == [exists |-> FALSE, bytes |-> <<>>]
File(b) == [exists |-> TRUE, bytes |-> b]

\* contents a resource file may hold: absent, empty, "hi", "gone",
\* a 12-byte text holding a blank line, a two-byte character, and bytes that
\* are not UTF-8
FileStates ==
    { Missing,
      File(<<>>),
      File(<<104, 105>>),
      File(<<103, 111, 110, 101>>),
      File(<<60, 104, 49, 62, 13, 10, 13, 10, 72, 105, 33, 10>>),
      File(<<195, 169>>),
      File(<<255>>) }

Filler(n, b) == [i \in 1..n |-> b]

Replace(s, i, b) == [s EXCEPT ![i] = b]

\* what a peer may have sent by the time of the single read
Requests ==
    \* the pattern and every proper prefix of it, the empty read included
    { SubSeq(get, 1, n) : n \in 0..Len(get) }
    \* the pattern followed by trailing bytes
    \cup { get \o CRLF,
           get \o <<72, 111, 115, 116, 58, 32, 120, 13, 10, 13, 10>>,
           get \o <<0>> }
    \* the pattern with one byte zeroed or changed
    \cup { Replace(get, i, 0) : i \in 1..Len(get) }
    \cup { Replace(get, i, 120) : i \in 1..Len(get) }
    \* a prefix of the pattern followed by other bytes
    \cup { SubSeq(get, 1, 14) \o <<10, 13, 10>>,
           SubSeq(get, 1, 13) \o <<48, 13, 10, 13, 10>> }
    \* other paths and methods
    \cup { <<71, 69, 84, 32, 47, 109, 105, 115, 115, 105, 110, 103, 32, 72,
             84, 84, 80, 47, 49, 46, 49, 13, 10, 13, 10>>,
           <<80, 79, 83, 84, 32, 47, 32, 72, 84, 84, 80, 47, 49, 46, 49,
             13, 10, 13, 10>>,
           <<32>> \o get,
           <<103, 101, 116>> \o SubSeq(get, 4, Len(get)) }
    \* requests larger than the buffer
    \cup { get \o Filler(BufferSize, 65),
           Filler(BufferSize, 65) \o get }

\* how many bytes one write call may report as taken, for len offered: at
\* least one byte of a non-empty buffer, possibly fewer than all of them
WriteCounts(len) == IF len = 0 THEN {0} ELSE {1, len - 1, len} \cap 1..len

----------------------------------------------------------------------------
(* State *)

NewConn == [open |-> TRUE, handlers |-> 0, reads |-> 0, writes |-> 0]

Init ==
    /\ pc = "accept"
    /\ accepted = 0
    /\ stream = 0
    /\ conns = <<>>
    /\ fs \in [{HelloFile, NotFoundFile} -> FileStates]
    /\ buffer = ZeroBuffer
    /\ byte_count = 0
    /\ status_line = <<>>
    /\ filename = ""
    /\ contents = <<>>
    /\ response = <<>>
    /\ wire = <<>>
    /\ failed = "none"

\* faulty variant: the buffer outlives the call and keeps the last request
new_buffer_stale(old) == old

\* let mut buffer = [0; 1024]: each call of handle_connection gets a buffer
\* of its own, zero-filled whatever the previous call left behind
new_buffer(old) == ZeroBuffer

\* faulty variant: the stream is leaked instead of dropped
drop_leaked(cs, k) == cs

\* drop(stream): the TcpStream is closed when its owner goes out of scope
drop(cs, k) == IF k = 0 THEN cs ELSE [cs EXCEPT ![k].open = FALSE]

\* Result::unwrap on Err: the panic unwinds main's only thread, dropping the
\* stream it owns, and the process exits
unwrap_err(cause, cs) ==
    /\ pc' = "terminated"
    /\ failed' = cause
    /\ conns' = drop(cs, stream)
    /\ stream' = 0

Locals == <<buffer, byte_count, status_line, filename, contents, response>>

----------------------------------------------------------------------------
(* main: for stream in listener.incoming() { stream.unwrap(); handle_connection(stream) } *)

\* faulty variant: the loop takes the next connection while the previous handler is
\* still at its write, as if the handler had been spawned
main_accept_spawned ==
    /\ pc \in {"accept", "write"}
    /\ accepted < MaxAccepts
    /\ accepted' = accepted + 1
    /\ stream' = accepted + 1
    /\ conns' = Append(conns, [NewConn EXCEPT !.handlers = 1])
    /\ buffer' = new_buffer(buffer)
    /\ byte_count' = 0
    /\ status_line' = <<>>
    /\ filename' = ""
    /\ contents' = <<>>
    /\ response' = <<>>
    /\ wire' = <<>>
    /\ pc' = "read"
    /\ UNCHANGED <<fs, failed>>

\* incoming() yields Ok(stream): the stream moves into handle_connection,
\* whose frame starts with a zero-filled buffer
main_accept ==
    /\ pc = "accept"
    /\ accepted < MaxAccepts
    /\ accepted' = accepted + 1
    /\ stream' = accepted + 1
    /\ conns' = Append(conns, [NewConn EXCEPT !.handlers = 1])
    /\ buffer' = new_buffer(buffer)
    /\ byte_count' = 0
    /\ status_line' = <<>>
    /\ filename' = ""
    /\ contents' = <<>>
    /\ response' = <<>>
    /\ wire' = <<>>
    /\ pc' = "read"
    /\ UNCHANGED <<fs, failed>>

\* faulty variant: the failing accept is reported and the iteration skipped
main_accept_err_skipped ==
    /\ pc = "accept"
    /\ failed' = "accept"
    /\ UNCHANGED <<pc, accepted, stream, conns, fs, wire>>
    /\ UNCHANGED Locals

\* incoming() yields Err: stream.unwrap() panics
main_accept_err ==
    /\ pc = "accept"
    /\ unwrap_err("accept", conns)
    /\ UNCHANGED <<accepted, fs, wire>>
    /\ UNCHANGED Locals

----------------------------------------------------------------------------
(* handle_connection *)

\* stream.read(&mut buffer) returns Ok(n): the first n bytes of the buffer
\* are overwritten, the rest keep their content
read_ok ==
    /\ pc = "read"
    /\ \E req \in Requests :
         LET n == Min(Len(req), BufferSize) IN
           /\ buffer' = [i \in 1..BufferSize |->
                           IF i <= n THEN req[i] ELSE buffer[i]]
           /\ byte_count' = n
    /\ conns' = [conns EXCEPT ![stream].reads = @ + 1]
    /\ pc' = "classify"
    /\ UNCHANGED <<accepted, stream, fs, status_line, filename, contents,
                   response, wire, failed>>

\* stream.read(&mut buffer) returns Err: unwrap() panics
read_err ==
    /\ pc = "read"
    /\ unwrap_err("read", [conns EXCEPT ![stream].reads = @ + 1])
    /\ UNCHANGED <<accepted, fs, wire>>
    /\ UNCHANGED Locals

\* let (status_line, filename) = if buffer.starts_with(get) {..} else {..};
classify ==
    /\ pc = "classify"
    /\ status_line' = select(buffer)[1]
    /\ filename' = select(buffer)[2]
    /\ pc' = "resolve"
    /\ UNCHANGED <<accepted, stream, conns, fs, buffer, byte_count, contents,
                   response, wire, failed>>

\* fs::read_to_string(filename): Err when the file is absent or not UTF-8
read_to_string(name) ==
    IF fs[name].exists /\ Utf8Valid(fs[name].bytes)
    THEN [ok |-> TRUE, val |-> fs[name].bytes]
    ELSE [ok |-> FALSE, val |-> <<>>]

\* let contents = fs::read_to_string(filename).unwrap();  -- Ok
resolve_ok ==
    /\ pc = "resolve"
    /\ read_to_string(filename).ok
    /\ contents' = read_to_string(filename).val
    /\ pc' = "format"
    /\ UNCHANGED <<accepted, stream, conns, fs, buffer, byte_count,
                   status_line, filename, response, wire, failed>>

\* let contents = fs::read_to_string(filename).unwrap();  -- Err, panics
resolve_err ==
    /\ pc = "resolve"
    /\ ~read_to_string(filename).ok
    /\ unwrap_err("resolve", conns)
    /\ UNCHANGED <<accepted, fs, wire>>
    /\ UNCHANGED Locals

\* let response = format!(...);
format_response ==
    /\ pc = "format"
    /\ response' = format(status_line, contents)
    /\ pc' = "write"
    /\ UNCHANGED <<accepted, stream, conns, fs, buffer, byte_count,
                   status_line, filename, contents, wire, failed>>

\* stream.write(response.as_bytes()) returns Ok(n), n <= len: one write call,
\* the transport takes the first n bytes; unwrap() discards n
write_ok ==
    /\ pc = "write"
    /\ \E n \in WriteCounts(Len(response)) :
         wire' = SubSeq(response, 1, n)
    /\ conns' = [conns EXCEPT ![stream].writes = @ + 1]
    /\ pc' = "flush"
    /\ UNCHANGED <<accepted, stream, fs, failed>>
    /\ UNCHANGED Locals

\* stream.write(response.as_bytes()) returns Err: unwrap() panics
write_err ==
    /\ pc = "write"
    /\ unwrap_err("write", [conns EXCEPT ![stream].writes = @ + 1])
    /\ UNCHANGED <<accepted, fs, wire>>
    /\ UNCHANGED Locals

\* stream.flush().unwrap(): TcpStream's flush does nothing and returns Ok(()),
\* so this unwrap() never panics
flush_ok ==
    /\ pc = "flush"
    /\ pc' = "return"
    /\ UNCHANGED <<accepted, stream, conns, fs, wire, failed>>
    /\ UNCHANGED Locals

\* the closing brace of handle_connection: stream is dropped, control is
\* back in main's loop
handler_return ==
    /\ pc = "return"
    /\ conns' = drop(conns, stream)
    /\ stream' = 0
    /\ pc' = "accept"
    /\ UNCHANGED <<accepted, fs, wire, failed>>
    /\ UNCHANGED Locals

Next ==
    \/ main_accept
    \/ main_accept_err
    \/ read_ok
    \/ read_err
    \/ classify
    \/ resolve_ok
    \/ resolve_err
    \/ format_response
    \/ write_ok
    \/ write_err
    \/ flush_ok
    \/ handler_return

Spec == Init /\ [][Next]_vars

----------------------------------------------------------------------------
(* Reading a response back, as a client does *)

HasPrefix(s, p) == Len(p) <= Len(s) /\ SubSeq(s, 1, Len(p)) = p

\* index of the first "\r\n" in s, 0 when there is none
FirstCRLF(s) ==
    LET I == {i \in 1..(Len(s) - 1) : s[i] = 13 /\ s[i + 1] = 10}
    IN  IF I = {} THEN 0 ELSE CHOOSE i \in I : \A j \in I : i <= j

IsDigits(d) == d # <<>> /\ \A i \in 1..Len(d) : d[i] >= 48 /\ d[i] <= 57

RECURSIVE ParseDecimal(_)
ParseDecimal(d) ==
    IF d = <<>> THEN 0
    ELSE 10 * ParseDecimal(SubSeq(d, 1, Len(d) - 1)) + (d[Len(d)] - 48)

NoParse == [ok |-> FALSE, status |-> <<>>, n |-> 0, body |-> <<>>]

\* <status-line> CRLF "Content-Length: " <n> CRLF CRLF <body>
ParseResponse(r) ==
    LET i == FirstCRLF(r)
        afterStatus == SubSeq(r, i + 2, Len(r))
        afterName == SubSeq(afterStatus, Len(ContentLengthHdr) + 1,
                            Len(afterStatus))
        j == FirstCRLF(afterName)
        digits == SubSeq(afterName, 1, j - 1)
        afterHeader == SubSeq(afterName, j + 2, Len(afterName))
    IN  IF i = 0 THEN NoParse
        ELSE IF ~HasPrefix(afterStatus, ContentLengthHdr) THEN NoParse
        ELSE IF j = 0 THEN NoParse
        ELSE IF ~IsDigits(digits) THEN NoParse
        ELSE IF ~HasPrefix(afterHeader, CRLF) THEN NoParse
        ELSE [ok |-> TRUE,
              status |-> SubSeq(r, 1, i - 1),
              n |-> ParseDecimal(digits),
              body |-> SubSeq(afterHeader, Len(CRLF) + 1, Len(afterHeader))]

----------------------------------------------------------------------------
(* Properties *)

\* the bytes delivered by the single read
Delivered == SubSeq(buffer, 1, byte_count)

Classified == pc \in {"resolve", "format", "write", "flush", "return"}
Formatted == pc \in {"write", "flush", "return"}
AllClosed == \A k \in 1..accepted : ~conns[k].open

\* C1: the request is classified as RootGet (200 status line, success page)
\* if and only if the bytes delivered by the read begin with the 16 bytes of
\* "GET / HTTP/1.1\r\n"; every other content, the empty read and the proper
\* prefixes of the pattern included, is classified as Other (404 status line,
\* not-found page); the comparison stays inside the buffer.
C1_ClassifyIffPattern ==
    Classified =>
        /\ Len(buffer) = BufferSize
        /\ byte_count <= Len(buffer)
        /\ Len(get) <= Len(buffer)
        /\ IF HasPrefix(Delivered, get)
           THEN status_line = StatusOk /\ filename = HelloFile
           ELSE status_line = StatusNotFound /\ filename = NotFoundFile

\* a read of 15 bytes, a proper prefix of the pattern, classified as Other
C1_Witness ==
    /\ pc = "resolve"
    /\ byte_count = 15
    /\ Delivered = SubSeq(get, 1, 15)
    /\ status_line = StatusNotFound

\* C2: in every response the status line is "HTTP/1.1 200 OK" exactly when
\* the body was loaded from hello.html and "HTTP/1.1 404 NOT FOUND" exactly
\* when it was loaded from 404.html, and which of the two it is depends only
\* on whether the current request's buffer starts with the pattern.
C2_StatusMatchesBody ==
    Formatted =>
        LET r == ParseResponse(response) IN
        /\ r.ok
        /\ r.status \in {StatusOk, StatusNotFound}
        /\ (r.status = StatusOk) <=>
              (filename = HelloFile /\ r.body = fs[HelloFile].bytes)
        /\ (r.status = StatusNotFound) <=>
              (filename = NotFoundFile /\ r.body = fs[NotFoundFile].bytes)
        /\ (r.status = StatusOk) <=> HasPrefix(buffer, get)

\* a 404 response whose body is the not-found page, the success page differing
C2_Witness ==
    /\ pc = "flush"
    /\ ParseResponse(response).status = StatusNotFound
    /\ ParseResponse(response).body = fs[NotFoundFile].bytes
    /\ fs[HelloFile].exists
    /\ fs[HelloFile].bytes # fs[NotFoundFile].bytes

\* C3: every response is <status-line> CRLF "Content-Length: " <n> CRLF CRLF
\* <body>, and reading it back yields a declared length n equal to the byte
\* length of the body after the blank line, which is the resource's content.
C3_ContentLengthIsBodyLength ==
    Formatted =>
        LET r == ParseResponse(response) IN
        /\ r.ok
        /\ r.status = status_line
        /\ r.body = contents
        /\ r.n = Len(r.body)

\* the response built for an empty resource file
C3_Witness ==
    /\ pc = "write"
    /\ contents = <<>>
    /\ ParseResponse(response).ok
    /\ ParseResponse(response).n = 0

C5_MissingResourceIsolated ==
    failed = "resolve" =>
        /\ wire = <<>>
        /\ AllClosed
        /\ pc # "terminated"

\* C6: when handle_connection returns, every byte of the formatted response
\* has been handed to the connection.
C6_FullResponseWritten ==
    pc = "return" => wire = response

\* C7: when the single read fails, the connection is abandoned without
\* response bytes and the accept loop goes on.
C7_ReadFailureIsolated ==
    failed = "read" =>
        /\ wire = <<>>
        /\ AllClosed
        /\ pc # "terminated"

\* C8: when the write fails, the connection is dropped without a retry of the
\* write and the accept loop goes on.
C8_WriteFailureIsolated ==
    failed = "write" =>
        /\ AllClosed
        /\ \A k \in 1..accepted : conns[k].writes <= 1
        /\ pc # "terminated"

\* C9: connections are served one at a time and in acceptance order: at most
\* one connection is open, it is the latest accepted one, every earlier one
\* was read and is closed before the next is accepted, and no write goes to a
\* connection once a later one has been read from.
C9_SequentialInOrder ==
    /\ [](/\ Cardinality({k \in 1..accepted : conns[k].open}) <= 1
          /\ \A k \in 1..accepted : conns[k].open => k = stream
          /\ stream # 0 => stream = accepted
          /\ \A k \in 1..accepted :
               k < accepted => ~conns[k].open /\ conns[k].reads = 1)
    /\ [][/\ accepted' > accepted => AllClosed
          /\ \A j \in 1..accepted :
               conns'[j].writes > conns[j].writes =>
                 \A k \in 1..accepted : k > j => conns[k].reads = 0]_vars

\* the second connection has been read while the first one is closed, answered
C9_Witness ==
    /\ accepted = 2
    /\ stream = 2
    /\ conns[2].reads = 1
    /\ ~conns[1].open
    /\ conns[1].writes = 1

\* C10: every accepted connection is handed to one handle_connection call,
\* is read exactly once and written at most once, is closed once its handler
\* has ended, whatever the outcome, and is never touched again.
C10_ConnectionLifecycle ==
    /\ [](/\ \A k \in 1..accepted :
               /\ conns[k].handlers = 1
               /\ conns[k].reads <= 1
               /\ conns[k].writes <= 1
               /\ (k = stream /\ pc # "read") => conns[k].reads = 1
               /\ k # stream => ~conns[k].open /\ conns[k].reads = 1
          /\ pc \in {"accept", "terminated"} => stream = 0)
    /\ [][\A k \in 1..accepted :
            ~conns[k].open => conns'[k] = conns[k]]_vars

\* a connection closed by the panic of a failed resource read
C10_Witness ==
    /\ pc = "terminated"
    /\ failed = "resolve"
    /\ accepted = 1
    /\ ~conns[1].open
    /\ conns[1].reads = 1
    /\ conns[1].writes = 0

\* the pattern matched against the first n bytes of the buffer only
MatchesWithin(n) ==
    /\ Len(get) <= n
    /\ \A i \in 1..Len(get) : buffer[i] = get[i]

\* C11: over any sequence of connections the classification depends only on
\* the bytes delivered by the connection's own read: past them the buffer
\* holds zeros, nothing of an earlier request, so matching the pattern against
\* the whole buffer and against the first byte_count bytes give the same
\* result, and that result is the classification.
C11_OnlyDeliveredBytesCount ==
    /\ pc = "classify" =>
         /\ \A i \in (byte_count + 1)..BufferSize : buffer[i] = 0
         /\ MatchesWithin(BufferSize) <=> MatchesWithin(byte_count)
    /\ Classified =>
         /\ (status_line = StatusOk) <=> MatchesWithin(byte_count)
         /\ (filename = HelloFile) <=> MatchesWithin(byte_count)

\* the second connection delivers only "GET /" after a first connection that
\* was answered from hello.html (404.html being absent, the first request
\* matched the pattern), and is classified as Other
C11_Witness ==
    /\ accepted = 2
    /\ ~fs[NotFoundFile].exists
    /\ ~conns[1].open
    /\ conns[1].writes = 1
    /\ pc = "resolve"
    /\ byte_count = 5
    /\ Delivered = SubSeq(get, 1, 5)
    /\ status_line = StatusNotFound

====
